---- MODULE Spec2Model ----
(***************************************************************************)
(* A model of the streaming part of fastobo: SequentialReader::new,        *)
(* SequentialReader::next and OboDoc::try_from (src/src/parser/            *)
(* sequential.rs), over a stream given as the sequence of outcomes of its  *)
(* successive read_line calls.                                             *)
(*                                                                         *)
(* A line of the stream is named by a string; what the code asks of a line *)
(* (its byte length, whether it is blank once trimmed, whether it starts   *)
(* with '[', how the grammar and the AST builder answer on it) is given by *)
(* the operators below, one concrete OBO line per name.                    *)
(*                                                                         *)
(* The module also models HeaderClause: its derived ordering               *)
(* (src/src/ast/header/clause.rs, specification SpecOrd) and its Display   *)
(* and FromStr in the two trees src/fastobo/ast and src/fastobo/src/ast    *)
(* (specification SpecText), a clause text being the sequence of its tag,  *)
(* separator, values and spaces.                                           *)
(***************************************************************************)
EXTENDS Integers, Sequences, FiniteSets, TLC

\* ---------------------------------------------------------------- bounds
MaxLines == 4        \* read_line outcomes in a stream (EOF follows them)
MaxIoErrors == 1     \* failing read_line calls in a stream
MaxNones == 2        \* calls of next() that return None

\* ----------------------------------------------------------------- lines
\* "fv"   format-version: 1.2\n      a header clause
\* "id"   id: A\n                    an entity clause (a header reads it as an unreserved clause)
\* "xb"   xref: a b\n                accepted by the grammar, refused by the entity builder
\* "hb"   idspace: X y\n             accepted by the grammar, refused by the header builder
\* "oops" oops\n                     refused by the grammar everywhere
\* "bl"   \n                         a blank line
\* "[Term]", "[Typedef]"             stanza openers
TextLines == {"fv", "id", "xb", "hb", "oops", "bl", "[Term]", "[Typedef]"}

\* A failing read_line: "io0" leaves the line buffer as it was cleared,
\* "ioP" leaves in it the bytes read before the failure (here "id").
IoEvents == {"io0", "ioP"}

NoLine == ""         \* the empty line buffer: String::new(), or read_line at EOF

\* String::len of a line held in the buffer.
ByteLen(l) ==
    CASE l = "fv" -> 20
      [] l = "id" -> 6
      [] l = "xb" -> 10
      [] l = "hb" -> 13
      [] l = "oops" -> 5
      [] l = "bl" -> 1
      [] l = "[Term]" -> 7
      [] l = "[Typedef]" -> 10
      [] l = "part" -> 2
      [] OTHER -> 0

\* line.is_empty()
IsEmpty(l) == ByteLen(l) = 0

\* l.trim().is_empty()
TrimIsEmpty(l) == l \in {"bl", NoLine}

\* l.trim().starts_with('[') and l.trim_start().starts_with('[')
StartsWithBracket(l) == l \in {"[Term]", "[Typedef]"}

\* OboParser::parse(Rule::HeaderClause, &line) then HeaderClause::from_pair_unchecked
HeaderClauseParse(l) ==
    CASE l \in {"fv", "id", "xb"} -> "ok"
      [] l = "hb" -> "builder"
      [] OTHER -> "grammar"

\* The answer of a line inside the text handed to Rule::EntitySingle.
EntityLineParse(l) ==
    CASE l = "id" -> "ok"
      [] l = "xb" -> "builder"
      [] OTHER -> "grammar"

EntityKind(l) == IF l = "[Term]" THEN "Term" ELSE "Typedef"

\* BufRead::read_line, k-th call on the stream s: the line appended to the
\* cleared buffer, and whether the call failed.
ReadLine(s, k) ==
    IF k > Len(s) THEN [err |-> FALSE, line |-> NoLine]
    ELSE IF s[k] = "io0" THEN [err |-> TRUE, line |-> NoLine]
    ELSE IF s[k] = "ioP" THEN [err |-> TRUE, line |-> "part"]
    ELSE [err |-> FALSE, line |-> s[k]]

\* The stream position after the k-th call (EOF is not a position).
Advance(s, k) == IF k > Len(s) THEN Len(s) ELSE k

\* stream       the outcomes of the successive read_line calls of the BufRead
\* pos          how many of them have been consumed
\* line, offset, line_offset, header   the fields of SequentialReader
\* pc           "new" before the constructor, "iter" while the reader is
\*              owned by the caller, "moved" once try_from has taken it
\* ret          what the last call of next() returned
\* items        the Some(..) values next() has returned to the caller, each
\*              with the stream index of the first line it was built from and
\*              the number of lines stored in frame_lines for it
\* doc          the result of OboDoc::try_from
\* nones        how many times next() has returned None
\* frame_buf    the local frame_lines of next() as its last call returned,
\*              line by line
\* clause_a, clause_b   two HeaderClause values, and
\* ordering             the result of clause_a.cmp(&clause_b)
\* tree                 the source tree whose HeaderClause is in use
\* text                 the output of clause_a.to_string(), token by token
\* parsed               the result of HeaderClause::from_str(&text)
\* pair                 the pest Pair handed to a builder: its rule, text and span
\* self_type            the type the builder is called on (Self)
\* called               the builder function the caller has called, "" before
\* built                what the builder returned
\* unchecked_calls      the calls of from_pair_unchecked so far
\* py_tree              the source tree of the Python bindings in use
\* wrapper              the wrapper object made from clause_a
\* unwrapped            the HeaderClause the wrapper was converted back to
\* repr_ret             the class name __repr__ of the wrapper wrote, "" before
\* unreserved           the fields of an UnreservedClause wrapper
\* args                 the tag and the value last given to it (constructor or setter)
\* got                  the getter last called and what it returned
\* calls                the number of accessor calls so far
\* tag_ret              <<t>> when clause_a.tag() returned t, <<>> before the call
\* reference            the text ImportClause is created from, by characters
\* import_clause        the result of ImportClause::__init__
\* qualifiers           the Vec<Qualifier> of a QualifierList
\* given                the qualifiers the list was created with
\* sorts                the number of calls of sort() so far
\* sorted_ret           what is_sorted() returned, "" before the call
\* written              the lines to_writer has written to its writer
\* wrote                the result of to_writer
VARIABLES stream, pos, line, offset, line_offset, header, pc, ret, items, doc,
          frame_buf, nones,
          clause_a, clause_b, ordering, tree, text, parsed,
          written, wrote,
          qualifiers, given, sorts, sorted_ret,
          reference, import_clause,
          tag_ret,
          pair, self_type, called, built, unchecked_calls,
          py_tree, wrapper, unwrapped, repr_ret,
          unreserved, args, got, calls

reader_vars == <<stream, pos, line, offset, line_offset, header, pc, ret, items, doc,
                 frame_buf, nones>>

clause_vars == <<clause_a, clause_b, ordering, tree, text, parsed>>

writer_vars == <<written, wrote>>

qual_vars == <<qualifiers, given, sorts, sorted_ret>>

import_vars == <<reference, import_clause>>

pair_vars == <<pair, self_type, called, built, unchecked_calls>>

wrap_vars == <<py_tree, wrapper, unwrapped, repr_ret>>

accessor_vars == <<unreserved, args, got, calls>>

extra_vars == <<pair_vars, wrap_vars, accessor_vars>>

later_vars == <<writer_vars, qual_vars, import_vars, tag_ret, extra_vars>>

vars == <<reader_vars, clause_vars, later_vars>>

\* ----------------------------------------------------------------- items
\* What next() returns: Option<Result<Frame, Error>>.
None == [tag |-> "None", kind |-> "", body |-> <<>>, offs |-> <<>>]

\* Frame::Header(HeaderFrame::from(frame_clauses)): one clause per parsed line.
HeaderFrame(clauses) == [tag |-> "Header", kind |-> "", body |-> clauses, offs |-> <<>>]

\* Frame::from(EntityFrame): the stanza's kind and its clauses in order.
EntityFrame(kind, clauses) == [tag |-> "Entity", kind |-> kind, body |-> clauses, offs |-> <<>>]

\* Error::from(std::io::Error)
IoError == [tag |-> "Err", kind |-> "io", body |-> <<>>, offs |-> <<>>]

\* A SyntaxError raised by the grammar or by the AST builder; offs is empty
\* until with_offsets(line_offset, offset) is called on it.
SyntaxError(by) == [tag |-> "Err", kind |-> by, body |-> <<>>, offs |-> <<>>]

with_offsets(e, loff, off) == [e EXCEPT !.offs = <<loff, off>>]

\* The clause lines of a frame text: lines that trim_start() left empty add
\* nothing to frame_lines.
RECURSIVE ClauseLines(_)
ClauseLines(fl) ==
    IF fl = <<>> THEN <<>>
    ELSE IF TrimIsEmpty(Head(fl)) THEN ClauseLines(Tail(fl))
    ELSE <<Head(fl)>> \o ClauseLines(Tail(fl))

\* OboParser::parse(Rule::EntitySingle, &frame_lines): an opener, then clauses.
EntitySingleAccepts(fl) ==
    /\ Len(fl) >= 1
    /\ StartsWithBracket(fl[1])
    /\ \A i \in 2..Len(fl) : TrimIsEmpty(fl[i]) \/ EntityLineParse(fl[i]) # "grammar"

\* EntityFrame::from_pair_unchecked on the pair of an accepted text.
EntityBuilderAccepts(fl) ==
    \A i \in 2..Len(fl) : TrimIsEmpty(fl[i]) \/ EntityLineParse(fl[i]) # "builder"

\* The match of next(): a grammar error gets the reader's offsets, a builder
\* error is converted as it is.
ParseEntity(fl, loff, off) ==
    IF ~EntitySingleAccepts(fl) THEN with_offsets(SyntaxError("grammar"), loff, off)
    ELSE IF ~EntityBuilderAccepts(fl) THEN SyntaxError("builder")
    ELSE EntityFrame(EntityKind(fl[1]), ClauseLines(Tail(fl)))

\* The two matches of new() on one header line.
ParseHeaderLine(l, loff, off) ==
    IF HeaderClauseParse(l) = "ok" THEN None
    ELSE with_offsets(SyntaxError(HeaderClauseParse(l)), loff, off)

\* ------------------------------------------------------- SequentialReader
\* A push that keeps one clause of each kind.
PushClauseOnce(frame_clauses, l) ==
    IF \E i \in 1..Len(frame_clauses) : frame_clauses[i] = l
    THEN frame_clauses ELSE Append(frame_clauses, l)

\* A push at the front: the clauses come out in reverse order.
PushClauseFront(frame_clauses, l) == <<l>> \o frame_clauses

\* frame_clauses.push(clause)
PushClause(frame_clauses, l) == Append(frame_clauses, l)

\* The loop of SequentialReader::new, entered with k lines read.
RECURSIVE NewLoop(_, _, _, _, _)
NewLoop(s, k, off, loff, frame_clauses) ==
    LET rd == ReadLine(s, k + 1)
        ln == rd.line
        out(h) == [pos |-> Advance(s, k + 1), line |-> ln, offset |-> off,
                   line_offset |-> loff, header |-> h]
        isClause == ~StartsWithBracket(ln) /\ ~TrimIsEmpty(ln)
        clauses == IF isClause THEN PushClause(frame_clauses, ln) ELSE frame_clauses
    IN  IF rd.err THEN out(IoError)
        ELSE IF isClause /\ ParseHeaderLine(ln, loff, off) # None
             THEN out(ParseHeaderLine(ln, loff, off))
        ELSE IF StartsWithBracket(ln) \/ IsEmpty(ln) THEN out(HeaderFrame(clauses))
        ELSE NewLoop(s, Advance(s, k + 1), off + ByteLen(ln), loff + 1, clauses)

\* SequentialReader::new(stream)
New(s) == NewLoop(s, 0, 0, 0, <<>>)

\* The frame buffer overwritten by each line instead of extended.
PushLineOverwrite(fl, l) == <<l>>

\* frame_lines.push_str(l)
PushLine(fl, l) == Append(fl, l)

\* The line in the buffer on entry left out of the count.
UpdateLineOffsetNoFirst(loff, local_line_offset) == loff + local_line_offset

\* self.line_offset += local_line_offset + 1
UpdateLineOffset(loff, local_line_offset) == loff + local_line_offset + 1

\* self.offset += local_offset + self.line.len(), with the line just read
UpdateOffset(off, local_offset, l) == off + local_offset + ByteLen(l)

\* A return of None that counts a line.
ExhaustedCounting(r) == [r EXCEPT !.line_offset = @ + 1]

\* None, returned when the loop is not entered: the reader is left as it is.
Exhausted(r) == r

\* The while loop of next(): r is the reader, fl the local frame_lines.
\* A frame that ends only at EOF.
FrameEndsAtEof(l) == IsEmpty(l)

\* A frame that ends only at the line of the next one.
FrameEndsAtBracket(l) == StartsWithBracket(l)

\* l.starts_with('[') || self.line.is_empty(): the next frame, or EOF
FrameEnds(l) == StartsWithBracket(l) \/ IsEmpty(l)

RECURSIVE NextLoop(_, _, _, _, _)
NextLoop(s, r, fl, local_line_offset, local_offset) ==
    IF IsEmpty(r.line)
    THEN [rd |-> Exhausted(r), ret |-> None, used |-> local_line_offset, buf |-> fl]
    ELSE
      LET frame_lines == PushLine(fl, r.line)
          rd == ReadLine(s, r.pos + 1)
          r1 == [r EXCEPT !.line = rd.line, !.pos = Advance(s, r.pos + 1)]
      IN  IF rd.err THEN [rd |-> r1, ret |-> IoError, used |-> local_line_offset + 1,
                              buf |-> frame_lines]
          ELSE IF FrameEnds(rd.line)
               THEN [rd |-> [r1 EXCEPT
                               !.line_offset = UpdateLineOffset(r.line_offset, local_line_offset),
                               !.offset = UpdateOffset(r.offset, local_offset, rd.line)],
                     ret |-> ParseEntity(frame_lines, r.line_offset, r.offset),
                     used |-> local_line_offset + 1,
                     buf |-> frame_lines]
          ELSE NextLoop(s, r1, frame_lines, local_line_offset + 1,
                        local_offset + ByteLen(rd.line))

\* A frame buffer that still holds a line when the call begins.
StaleFrameLines == <<"[Term]">>

\* let mut frame_lines = String::new();
NewFrameLines == <<>>

\* SequentialReader::next(&mut self)
NextCall(s, r) ==
    IF r.header # None
    THEN [rd |-> [r EXCEPT !.header = None], ret |-> r.header, used |-> 0,
          buf |-> NewFrameLines]
    ELSE NextLoop(s, r, NewFrameLines, 0, 0)

\* ------------------------------------------------------------ OboDoc
NoDoc == [tag |-> "NoDoc", header |-> <<>>, entities |-> <<>>, err |-> None]
DocOk(h, es) == [tag |-> "Ok", header |-> h, entities |-> es, err |-> None]
DocErr(e) == [tag |-> "Err", header |-> <<>>, entities |-> <<>>, err |-> e]
DocPanic == [tag |-> "Panic", header |-> <<>>, entities |-> <<>>, err |-> None]

Entity(item) == [kind |-> item.kind, clauses |-> item.body]

\* The for loop with the failed items skipped instead of returned.
RECURSIVE TryFromLoopSkipErr(_, _, _, _)
TryFromLoopSkipErr(s, r, h, es) ==
    LET c == NextCall(s, r)
    IN  IF c.ret = None THEN [rd |-> c.rd, doc |-> DocOk(h, es)]
        ELSE IF c.ret.tag = "Err" THEN TryFromLoopSkipErr(s, c.rd, h, es)
        ELSE IF c.ret.tag # "Entity" THEN [rd |-> c.rd, doc |-> DocPanic]
        ELSE TryFromLoopSkipErr(s, c.rd, h, Append(es, Entity(c.ret)))

\* The for loop of try_from: push every entity frame, stop at the first error.
RECURSIVE TryFromLoop(_, _, _, _)
TryFromLoop(s, r, h, es) ==
    LET c == NextCall(s, r)
    IN  IF c.ret = None THEN [rd |-> c.rd, doc |-> DocOk(h, es)]
        ELSE IF c.ret.tag = "Err" THEN [rd |-> c.rd, doc |-> DocErr(c.ret)]
        ELSE IF c.ret.tag # "Entity" THEN [rd |-> c.rd, doc |-> DocPanic]
        ELSE TryFromLoop(s, c.rd, h, Append(es, Entity(c.ret)))

\* OboDoc::try_from(reader)
TryFrom(s, r) ==
    LET c == NextCall(s, r)
    IN  IF c.ret = None THEN [rd |-> c.rd, doc |-> DocPanic]
        ELSE IF c.ret.tag = "Err" THEN [rd |-> c.rd, doc |-> DocErr(c.ret)]
        ELSE IF c.ret.tag # "Header" THEN [rd |-> c.rd, doc |-> DocPanic]
        ELSE TryFromLoop(s, c.rd, c.ret.body, <<>>)

\* ------------------------------------------------------------ HeaderClause
MaxAtom == 1         \* payload values are 0..MaxAtom, in their own order

\* The variants of enum HeaderClause, in the order of their declaration.
Variants ==
    << "FormatVersion", "DataVersion", "Date", "SavedBy", "AutoGeneratedBy",
       "Import", "Subsetdef", "SynonymTypedef", "DefaultNamespace",
       "NamespaceIdRule", "Idspace", "TreatXrefsAsEquivalent",
       "TreatXrefsAsGenusDifferentia", "TreatXrefsAsReverseGenusDifferentia",
       "TreatXrefsAsRelationship", "TreatXrefsAsIsA", "TreatXrefsAsHasSubclass",
       "PropertyValue", "Remark", "Ontology", "OwlAxioms", "Unreserved" >>

\* The payload of each variant: "val" a value, "opt" an Option of one.
FieldKinds(v) ==
    CASE v \in {"Subsetdef", "TreatXrefsAsRelationship", "Unreserved"} -> <<"val", "val">>
      [] v \in {"SynonymTypedef", "Idspace"} -> <<"val", "val", "opt">>
      [] v \in {"TreatXrefsAsGenusDifferentia", "TreatXrefsAsReverseGenusDifferentia"}
            -> <<"val", "val", "val">>
      [] OTHER -> <<"val">>

\* An Option is None (<<>>) or Some(x) (<<x>>).
FieldValues(kind, atoms) ==
    IF kind = "val" THEN atoms ELSE {<<>>} \cup {<<x>> : x \in atoms}

RECURSIVE Payloads(_, _)
Payloads(kinds, atoms) ==
    IF kinds = <<>> THEN {<<>>}
    ELSE {<<x>> \o r : x \in FieldValues(Head(kinds), atoms), r \in Payloads(Tail(kinds), atoms)}

\* The HeaderClause values over a set of payload values.
ClausesOver(vs, atoms) ==
    UNION {{[variant |-> v, fields |-> f] : f \in Payloads(FieldKinds(v), atoms)} : v \in vs}

VariantNames == {Variants[i] : i \in 1..Len(Variants)}

\* The variants numbered from the last declaration to the first.
DiscriminantReversed(v) == Len(Variants) + 1 - (CHOOSE i \in 1..Len(Variants) : Variants[i] = v)

\* The discriminant the compiler gives a variant: its declaration index.
Discriminant(v) == CHOOSE i \in 1..Len(Variants) : Variants[i] = v

CmpInt(x, y) == IF x < y THEN "Less" ELSE IF x > y THEN "Greater" ELSE "Equal"

\* Ord for Option<T>: None < Some(_), and Some by the value.
CmpOption(x, y) ==
    IF x = <<>> /\ y = <<>> THEN "Equal"
    ELSE IF x = <<>> THEN "Less"
    ELSE IF y = <<>> THEN "Greater"
    ELSE CmpInt(x[1], y[1])

CmpField(kind, x, y) == IF kind = "val" THEN CmpInt(x, y) ELSE CmpOption(x, y)

\* The derived comparison of two payloads of one variant: field by field,
\* the first fields that differ decide.
RECURSIVE CmpFields(_, _, _, _)
CmpFields(kinds, f, g, i) ==
    IF i > Len(kinds) THEN "Equal"
    ELSE IF CmpField(kinds[i], f[i], g[i]) # "Equal" THEN CmpField(kinds[i], f[i], g[i])
    ELSE CmpFields(kinds, f, g, i + 1)

\* #[derive(PartialOrd, Ord)] on HeaderClause: the discriminants, then the fields.
Cmp(a, b) ==
    IF Discriminant(a.variant) # Discriminant(b.variant)
    THEN CmpInt(Discriminant(a.variant), Discriminant(b.variant))
    ELSE CmpFields(FieldKinds(a.variant), a.fields, b.fields, 1)

Atoms == 0..MaxAtom

HeaderClauses == ClausesOver(VariantNames, Atoms)

NoClause == [variant |-> "", fields |-> <<>>]

\* The tag Display writes for each variant; Unreserved carries its own, and
\* stands in the tag table under "unreserved".
TagOf(v) ==
    CASE v = "FormatVersion" -> "format-version"
      [] v = "DataVersion" -> "data-version"
      [] v = "Date" -> "date"
      [] v = "SavedBy" -> "saved-by"
      [] v = "AutoGeneratedBy" -> "auto-generated-by"
      [] v = "Import" -> "import"
      [] v = "Subsetdef" -> "subsetdef"
      [] v = "SynonymTypedef" -> "synonymtypedef"
      [] v = "DefaultNamespace" -> "default-namespace"
      [] v = "NamespaceIdRule" -> "namespace-id-rule"
      [] v = "Idspace" -> "idspace"
      [] v = "TreatXrefsAsEquivalent" -> "treat-xrefs-as-equivalent"
      [] v = "TreatXrefsAsGenusDifferentia" -> "treat-xrefs-as-genus-differentia"
      [] v = "TreatXrefsAsReverseGenusDifferentia" -> "treat-xrefs-as-reverse-genus-differentia"
      [] v = "TreatXrefsAsRelationship" -> "treat-xrefs-as-relationship"
      [] v = "TreatXrefsAsIsA" -> "treat-xrefs-as-is_a"
      [] v = "TreatXrefsAsHasSubclass" -> "treat-xrefs-as-has-subclass"
      [] v = "PropertyValue" -> "property_value"
      [] v = "Remark" -> "remark"
      [] v = "Ontology" -> "ontology"
      [] v = "OwlAxioms" -> "owl-axioms"
      [] OTHER -> "unreserved"

\* The tag table of section 4.3 of the specification, in its order.
TagTable ==
    << "format-version", "data-version", "date", "saved-by", "auto-generated-by",
       "import", "subsetdef", "synonymtypedef", "default-namespace",
       "namespace-id-rule", "idspace", "treat-xrefs-as-equivalent",
       "treat-xrefs-as-genus-differentia", "treat-xrefs-as-reverse-genus-differentia",
       "treat-xrefs-as-relationship", "treat-xrefs-as-is_a",
       "treat-xrefs-as-has-subclass", "property_value", "remark", "ontology",
       "owl-axioms", "unreserved" >>

Trees == {"fastobo/ast", "fastobo/src"}

\* fastobo/ast has no NamespaceIdRule variant.
VariantsOf(t) ==
    IF t = "fastobo/ast" THEN VariantNames \ {"NamespaceIdRule"} ELSE VariantNames

\* The payload fields as Display writes them: the first after the tag, each
\* later one after a space, an Option only when it is Some.
RECURSIVE FieldTokens(_, _, _)
FieldTokens(kinds, fields, i) ==
    IF i > Len(kinds) THEN <<>>
    ELSE (IF kinds[i] = "opt"
          THEN (IF fields[i] = <<>> THEN <<>> ELSE <<" ", fields[i][1]>>)
          ELSE (IF i = 1 THEN <<fields[i]>> ELSE <<" ", fields[i]>>))
         \o FieldTokens(kinds, fields, i + 1)

\* What Display writes between the tag and the payload.
Separator(t, v) ==
    IF t = "fastobo/ast" /\ v = "TreatXrefsAsHasSubclass" THEN <<>> ELSE <<": ">>

\* impl Display for HeaderClause
Display(t, c) ==
    IF c.variant = "Unreserved"
    THEN <<c.fields[1], ": ", c.fields[2]>>
    ELSE <<TagOf(c.variant)>> \o Separator(t, c.variant)
            \o FieldTokens(FieldKinds(c.variant), c.fields, 1)

NotParsed == [tag |-> "None", clause |-> NoClause]

ParseOk(c) == [tag |-> "Ok", clause |-> c]

ParseErr == [tag |-> "Err", clause |-> NoClause]

\* The rule the grammar gives the tag of a clause: the rule of a typed tag of
\* the tree, and Unreserved only when no typed tag matches.
TagRule(t, tag) ==
    IF \E v \in VariantsOf(t) \ {"Unreserved"} : TagOf(v) = tag
    THEN CHOOSE v \in VariantsOf(t) \ {"Unreserved"} : TagOf(v) = tag
    ELSE "Unreserved"

\* The variants whose payload in the text is one UnquotedString.
FreeText(v) ==
    v \in {"FormatVersion", "DataVersion", "SavedBy", "AutoGeneratedBy",
           "NamespaceIdRule", "Remark", "Ontology", "OwlAxioms", "Unreserved"}

\* The text of the tokens from the i-th on.
RECURSIVE RestOfLine(_, _)
RestOfLine(txt, i) == IF i > Len(txt) THEN "" ELSE txt[i] \o RestOfLine(txt, i + 1)

\* The payload of a clause text: the values, with single spaces between them.
PayloadValues(txt) == [i \in 1..((Len(txt) - 1) \div 2) |-> txt[2 * i + 1]]

\* The grammar accepts: a tag, the separator, as many values as the tag takes
\* (an UnquotedString takes what is left of the line, spaces included).
ClauseAccepts(t, txt) ==
    /\ Len(txt) >= 3
    /\ Len(txt) % 2 = 1
    /\ txt[2] = ": "
    /\ \A i \in 2..((Len(txt) - 1) \div 2) : txt[2 * i] = " "
    /\ LET rule == TagRule(t, txt[1])
           kinds == FieldKinds(rule)
           n == Len(PayloadValues(txt))
       IN IF FreeText(rule) THEN n >= 1
          ELSE n = Len(kinds) \/ (kinds[Len(kinds)] = "opt" /\ n = Len(kinds) - 1)

\* A FromPair that gives every Unreserved clause one fixed tag.
FromPairFixedTag(t, txt) ==
    LET v == TagRule(t, txt[1])
    IN IF v = "Unreserved"
       THEN [variant |-> v, fields |-> <<"unreserved", RestOfLine(txt, 3)>>]
       ELSE [variant |-> v, fields |-> <<RestOfLine(txt, 3)>>]

\* impl FromPair for HeaderClause: the variant of the tag's rule, its fields
\* from the pairs that follow, an Option from whether a pair is left.
FromPair(t, txt) ==
    LET v == TagRule(t, txt[1])
        kinds == FieldKinds(v)
        vals == PayloadValues(txt)
    IN IF v = "Unreserved"
       THEN [variant |-> v, fields |-> <<txt[1], RestOfLine(txt, 3)>>]
       ELSE IF FreeText(v)
       THEN [variant |-> v, fields |-> <<RestOfLine(txt, 3)>>]
       ELSE [variant |-> v,
             fields |-> [i \in 1..Len(kinds) |->
                            IF kinds[i] = "val" THEN vals[i]
                            ELSE IF i <= Len(vals) THEN <<vals[i]>> ELSE <<>>]]

\* HeaderClause::from_str
FromStr(t, txt) == IF ClauseAccepts(t, txt) THEN ParseOk(FromPair(t, txt)) ELSE ParseErr

\* Payload values, and the tags an Unreserved clause is built with.
Vals == {"a", "b"}

UnreservedTags == {"tag", "format-version", "namespace-id-rule"}

\* The HeaderClause values of a tree.
TextClauses(t) ==
    ClausesOver(VariantsOf(t) \ {"Unreserved"}, Vals)
        \cup {[variant |-> "Unreserved", fields |-> <<k, x>>] : k \in UnreservedTags, x \in Vals}

NoClauses ==
    /\ clause_a = NoClause /\ clause_b = NoClause /\ ordering = ""
    /\ tree = "fastobo/src" /\ text = <<>> /\ parsed = NotParsed

NoWriter == written = <<>> /\ wrote = ""

NoQualifiers == qualifiers = <<>> /\ given = <<>> /\ sorts = 0 /\ sorted_ret = ""

NotBuilt == [tag |-> "None", reference |-> <<>>]

NoImport == reference = <<>> /\ import_clause = NotBuilt

NoTag == tag_ret = <<>>

NoPair == [rule |-> "", str |-> "", span |-> <<0, 0>>]

NoResult == [tag |-> "None"]

NoBuilder ==
    /\ pair = NoPair /\ self_type = "" /\ called = ""
    /\ built = NoResult /\ unchecked_calls = 0

NoWrapper == [class |-> "", fields |-> <<>>]

NoWrap == py_tree = "" /\ wrapper = NoWrapper /\ unwrapped = NoClause /\ repr_ret = ""

NoGot == [attr |-> "", ret |-> ""]

NoAccessor ==
    /\ unreserved = [tag |-> <<>>, value |-> <<>>] /\ args = [tag |-> "", value |-> ""]
    /\ got = NoGot /\ calls = 0

NoExtra == NoBuilder /\ NoWrap /\ NoAccessor

NoLater == NoWriter /\ NoQualifiers /\ NoImport /\ NoTag /\ NoExtra

\* ------------------------------------------------------------- the system
Reader == [pos |-> pos, line |-> line, offset |-> offset,
           line_offset |-> line_offset, header |-> header]

Start == [tag |-> "Start", kind |-> "", body |-> <<>>, offs |-> <<>>]

IoCount(s) == Cardinality({i \in 1..Len(s) : s[i] \in IoEvents})

Streams ==
    {s \in UNION {[1..n -> TextLines \cup IoEvents] : n \in 0..MaxLines} :
        IoCount(s) <= MaxIoErrors}

Init ==
    /\ stream \in Streams
    /\ pos = 0
    /\ line = NoLine
    /\ offset = 0
    /\ line_offset = 0
    /\ header = None
    /\ pc = "new"
    /\ ret = Start
    /\ items = <<>>
    /\ doc = NoDoc
    /\ frame_buf = <<>> /\ nones = 0
    /\ NoClauses
    /\ NoLater

SetReader(r) ==
    /\ pos' = r.pos
    /\ line' = r.line
    /\ offset' = r.offset
    /\ line_offset' = r.line_offset
    /\ header' = r.header

\* let reader = SequentialReader::new(stream);
Construct ==
    /\ pc = "new"
    /\ \E r \in {New(stream)} : SetReader(r)
    /\ pc' = "iter"
    /\ UNCHANGED <<stream, ret, items, doc, frame_buf, nones, clause_vars, later_vars>>

\* reader.next()
Next_ ==
    /\ pc = "iter"
    /\ nones < MaxNones
    /\ \E c \in {NextCall(stream, Reader)} :
           /\ SetReader(c.rd)
           /\ ret' = c.ret
           /\ items' = IF c.ret = None THEN items
                       ELSE Append(items, [ret |-> c.ret,
                                           first |-> IF c.used = 0 THEN 1 ELSE pos,
                                           used |-> c.used])
           /\ frame_buf' = c.buf
           /\ nones' = IF c.ret = None THEN nones + 1 ELSE nones
    /\ UNCHANGED <<stream, pc, doc, clause_vars, later_vars>>

\* OboDoc::try_from(reader)
Collect ==
    /\ pc = "iter"
    /\ LET c == TryFrom(stream, Reader)
       IN  /\ SetReader(c.rd)
           /\ doc' = c.doc
    /\ pc' = "moved"
    /\ frame_buf' = <<>>
    /\ UNCHANGED <<stream, ret, items, nones, clause_vars, later_vars>>

Next == Construct \/ Next_ \/ Collect

Spec == Init /\ [][Next]_vars

\* The reader in the hands of a caller that keeps calling next():
\* for item in reader { .. }
NextIter == Construct \/ Next_

\* One line for each way the loops of new() and next() can go on a line:
\* a clause that parses, one that does not, a blank line, an opener, and
\* the two failing reads.
IterLines == {"id", "oops", "bl", "[Term]", "io0", "ioP"}

InitIter == Init /\ \A i \in 1..Len(stream) : stream[i] \in IterLines

SpecIter == InitIter /\ [][NextIter]_vars /\ WF_vars(Construct) /\ WF_vars(Next_)

\* --------------------------------------------- comparing two header clauses
IdleReader ==
    /\ stream = <<>> /\ pos = 0 /\ line = NoLine /\ offset = 0 /\ line_offset = 0
    /\ header = None /\ pc = "new" /\ ret = Start /\ items = <<>> /\ doc = NoDoc
    /\ frame_buf = <<>> /\ nones = 0

InitOrd ==
    /\ IdleReader
    /\ NoLater
    /\ clause_a \in HeaderClauses
    /\ clause_b \in HeaderClauses
    /\ ordering = ""
    /\ tree = "fastobo/src" /\ text = <<>> /\ parsed = NotParsed

\* let ordering = clause_a.cmp(&clause_b);
Compare ==
    /\ ordering = ""
    /\ ordering' = Cmp(clause_a, clause_b)
    /\ UNCHANGED <<clause_a, clause_b, tree, text, parsed, reader_vars, later_vars>>

NextOrd == Compare

SpecOrd == InitOrd /\ [][NextOrd]_vars

\* ------------------------------------- writing a header clause and reading it
InitText ==
    /\ IdleReader
    /\ NoLater
    /\ tree \in Trees
    /\ clause_a \in TextClauses(tree)
    /\ clause_b = NoClause
    /\ ordering = ""
    /\ text = <<>>
    /\ parsed = NotParsed

\* let text = clause_a.to_string();
to_string ==
    /\ text = <<>>
    /\ text' = Display(tree, clause_a)
    /\ UNCHANGED <<clause_a, clause_b, ordering, tree, parsed, reader_vars, later_vars>>

\* let parsed = HeaderClause::from_str(&text);
from_str ==
    /\ text # <<>>
    /\ parsed = NotParsed
    /\ parsed' = FromStr(tree, text)
    /\ UNCHANGED <<clause_a, clause_b, ordering, tree, text, reader_vars, later_vars>>

NextText == to_string \/ from_str

SpecText == InitText /\ [][NextText]_vars

\* --------------------------------------------------- reading a header clause
MaxValues == 3       \* payload values in an input clause text

\* The trees with a FromPair for HeaderClause.
ParseTrees == Trees \cup {"src"}

\* The tags of input texts: every typed tag, and two that are not.
InputTags == {TagOf(v) : v \in VariantNames \ {"Unreserved"}} \cup {"tag", "x-tag"}

\* n values, single spaces between them.
RECURSIVE PayloadTexts(_)
PayloadTexts(n) ==
    IF n = 1 THEN {<<x>> : x \in Vals}
    ELSE {p \o <<" ", x>> : p \in PayloadTexts(n - 1), x \in Vals}

\* Clause texts: a tag, the separator, one to MaxValues values; after a typed
\* tag, as many values as its variant takes.
InputTexts ==
    {txt \in {<<k, ": ">> \o p : k \in InputTags,
                                  p \in UNION {PayloadTexts(n) : n \in 1..MaxValues}} :
        \A t \in ParseTrees : ClauseAccepts(t, txt)}

InitParse ==
    /\ IdleReader
    /\ NoLater
    /\ tree \in ParseTrees
    /\ text \in InputTexts
    /\ clause_a = NoClause
    /\ clause_b = NoClause
    /\ ordering = ""
    /\ parsed = NotParsed

NextParse == from_str

SpecParse == InitParse /\ [][NextParse]_vars

\* ------------------------------------------------------ writing a document
MaxHeaderClauses == 2    \* clauses in the header of a document to write
MaxEntities == 2         \* entity frames in a document to write

SeqsUpTo(S, n) == UNION {[1..k -> S] : k \in 0..n}

\* Headers and entity frames, by the lines of their clauses.
HeaderFramesToWrite == SeqsUpTo({"fv", "id"}, MaxHeaderClauses)

EntityFramesToWrite ==
    {[kind |-> k, clauses |-> c] : k \in {"Term", "Typedef"}, c \in {<<"id">>, <<"id", "id">>}}

DocsToWrite ==
    {DocOk(h, es) : h \in HeaderFramesToWrite, es \in SeqsUpTo(EntityFramesToWrite, MaxEntities)}

\* Display of a header frame: its clauses, a line each.
HeaderFrameLines(h) == h

\* Display of an entity frame: the line of its kind, then its clauses.
EntityFrameLines(e) == <<IF e.kind = "Term" THEN "[Term]" ELSE "[Typedef]">> \o e.clauses

\* A separator after every header, empty or not.
NeedsSeparatorBeforeEntities(h, es) == es # <<>>

\* !doc.header().is_empty() && !doc.entities().is_empty()
NeedsSeparator(h, es) == h # <<>> /\ es # <<>>

\* The write! calls of to_writer, each with the lines it writes.
Writes(d) ==
    <<HeaderFrameLines(d.header)>>
        \o (IF NeedsSeparator(d.header, d.entities) THEN << <<"bl">> >> ELSE <<>>)
        \o [i \in 1..Len(d.entities) |-> EntityFrameLines(d.entities[i])]

RECURSIVE Concat(_)
Concat(ws) == IF ws = <<>> THEN <<>> ELSE Head(ws) \o Concat(Tail(ws))

\* to_writer on a writer that takes room lines and fails on the next: the ?
\* after each write! returns the error, what was written stays written.
ToWriter(d, room) ==
    LET all == Concat(Writes(d))
    IN IF Len(all) <= room THEN [out |-> all, res |-> "Ok"]
       ELSE [out |-> SubSeq(all, 1, room), res |-> "Err"]

Rooms == 0..(MaxHeaderClauses + 1 + 3 * MaxEntities)

InitWrite ==
    /\ stream = <<>> /\ pos = 0 /\ line = NoLine /\ offset = 0 /\ line_offset = 0
    /\ header = None /\ pc = "moved" /\ ret = Start /\ items = <<>>
    /\ frame_buf = <<>> /\ nones = 0
    /\ doc \in DocsToWrite
    /\ NoClauses
    /\ NoLater

to_writer ==
    /\ doc.tag = "Ok"
    /\ wrote = ""
    /\ \E room \in Rooms :
          /\ written' = ToWriter(doc, room).out
          /\ wrote' = ToWriter(doc, room).res
    /\ UNCHANGED <<reader_vars, clause_vars, qual_vars, import_vars, tag_ret, extra_vars>>

NextWrite == to_writer

SpecWrite == InitWrite /\ [][NextWrite]_vars

\* ------------------------------------------------------------ QualifierList
MaxQualifiers == 3   \* qualifiers in a list
MaxSorts == 2        \* calls of sort() on a list

\* struct Qualifier { key, value }, over the payload values.
Qualifiers == [key : Atoms, value : Atoms]

\* A comparison by the value, then the key.
QCmpValueFirst(p, q) ==
    IF CmpInt(p.value, q.value) # "Equal" THEN CmpInt(p.value, q.value)
    ELSE CmpInt(p.key, q.key)

\* #[derive(Ord, PartialOrd)] on Qualifier: the key, then the value.
QCmp(p, q) ==
    IF CmpInt(p.key, q.key) # "Equal" THEN CmpInt(p.key, q.key)
    ELSE CmpInt(p.value, q.value)

Perms(n) == {f \in [1..n -> 1..n] : \A i, j \in 1..n : f[i] = f[j] => i = j}

Rearranged(qs) == {[i \in 1..Len(qs) |-> qs[f[i]]] : f \in Perms(Len(qs))}

\* An ordering by the key alone.
SortUnstableByKey(qs) ==
    {r \in Rearranged(qs) : \A i \in 2..Len(r) : r[i - 1].key <= r[i].key}

\* self.qualifiers.sort_unstable(): the elements in ascending order, those
\* that compare equal in any order.
SortUnstable(qs) ==
    {r \in Rearranged(qs) : \A i \in 2..Len(r) : QCmp(r[i - 1], r[i]) # "Greater"}

\* The loop of is_sorted, from index i.
RECURSIVE IsSortedFrom(_, _)
IsSortedFrom(qs, i) ==
    IF i > Len(qs) THEN TRUE
    ELSE IF QCmp(qs[i - 1], qs[i]) = "Greater" THEN FALSE
    ELSE IsSortedFrom(qs, i + 1)

\* Orderable::is_sorted (Rust's 1..len is the model's 2..Len)
IsSorted(qs) == IsSortedFrom(qs, 2)

InitQual ==
    /\ IdleReader
    /\ NoClauses
    /\ NoWriter
    /\ NoImport
    /\ NoTag
    /\ NoExtra
    /\ qualifiers \in SeqsUpTo(Qualifiers, MaxQualifiers)
    /\ given = qualifiers
    /\ sorts = 0
    /\ sorted_ret = ""

\* list.sort()
sort ==
    /\ sorts < MaxSorts
    /\ qualifiers' \in SortUnstable(qualifiers)
    /\ sorts' = sorts + 1
    /\ sorted_ret' = ""
    /\ UNCHANGED <<given, reader_vars, clause_vars, writer_vars, import_vars, tag_ret, extra_vars>>

\* list.is_sorted()
is_sorted ==
    /\ sorted_ret = ""
    /\ sorted_ret' = IF IsSorted(qualifiers) THEN "true" ELSE "false"
    /\ UNCHANGED <<qualifiers, given, sorts, reader_vars, clause_vars, writer_vars, import_vars, tag_ret, extra_vars>>

NextQual == sort \/ is_sorted

SpecQual == InitQual /\ [][NextQual]_vars

\* -------------------------------------------------------------- ImportClause
MaxRefLen == 3       \* characters in the text of an import

\* The characters of a reference: a letter, the colon, the slash, the space.
RefChars == {"a", ":", "/", " "}

References == SeqsUpTo(RefChars, MaxRefLen)

\* The index of the first colon of a text, 0 when it has none.
FirstColon(r) ==
    IF \E i \in 1..Len(r) : r[i] = ":"
    THEN CHOOSE i \in 1..Len(r) : r[i] = ":" /\ \A j \in 1..(i - 1) : r[j] # ":"
    ELSE 0

\* url::Url::from_str(reference).is_ok(): a scheme of letters, a colon, and
\* no space.
UrlParses(r) ==
    /\ FirstColon(r) >= 2
    /\ \A j \in 1..(FirstColon(r) - 1) : r[j] = "a"
    /\ \A j \in 1..Len(r) : r[j] # " "

\* obo::Ident::from_str(reference).is_ok(): a URL, or prefix:local with both
\* parts non-empty, or a non-empty text with no colon; no space in any.
IdentParses(r) ==
    \/ UrlParses(r)
    \/ /\ r # <<>>
       /\ \A j \in 1..Len(r) : r[j] # " "
       /\ \/ FirstColon(r) = 0
          \/ /\ FirstColon(r) \in 2..(Len(r) - 1)
             /\ \A j \in (FirstColon(r) + 1)..Len(r) : r[j] # ":"

ImportUrl(r) == [tag |-> "Url", reference |-> r]

ImportAbbreviated(r) == [tag |-> "Abbreviated", reference |-> r]

ValueError == [tag |-> "ValueError", reference |-> <<>>]

\* An __init__ that tries the identifier first.
ImportClauseIdentFirst(r) ==
    IF IdentParses(r) THEN ImportAbbreviated(r)
    ELSE IF UrlParses(r) THEN ImportUrl(r)
    ELSE ValueError

\* ImportClause::__init__(obj, reference)
ImportClauseNew(r) ==
    IF UrlParses(r) THEN ImportUrl(r)
    ELSE IF IdentParses(r) THEN ImportAbbreviated(r)
    ELSE ValueError

InitImport ==
    /\ IdleReader
    /\ NoClauses
    /\ NoWriter
    /\ NoQualifiers
    /\ NoTag
    /\ NoExtra
    /\ reference \in References
    /\ import_clause = NotBuilt

__init__ ==
    /\ import_clause = NotBuilt
    /\ import_clause' = ImportClauseNew(reference)
    /\ UNCHANGED <<reference, reader_vars, clause_vars, writer_vars, qual_vars, tag_ret, extra_vars>>

NextImport == __init__

SpecImport == InitImport /\ [][NextImport]_vars

\* ------------------------------------------------------- HeaderClause::tag
\* The clause(tag = ...) attribute of each variant: a tag, "0" for the field
\* of the variant that holds it, "" for a variant with no attribute.
TagAttribute(v) ==
    CASE v = "FormatVersion" -> "format-version"
      [] v = "DataVersion" -> "data-version"
      [] v = "SavedBy" -> "saved-by"
      [] v = "AutoGeneratedBy" -> "auto-generated-by"
      [] v = "DefaultNamespace" -> "default-namespace"
      [] v = "NamespaceIdRule" -> "namespace-id-rule"
      [] v = "TreatXrefsAsEquivalent" -> "treat-xrefs-as-equivalent"
      [] v = "TreatXrefsAsGenusDifferentia" -> "treat-xrefs-as-genus-differentia"
      [] v = "TreatXrefsAsReverseGenusDifferentia" -> "treat-xrefs-as-reverse-genus-differentia"
      [] v = "TreatXrefsAsRelationship" -> "treat-xrefs-as-relationship"
      [] v = "TreatXrefsAsIsA" -> "treat-xrefs-as-is_a"
      [] v = "TreatXrefsAsHasSubclass" -> "treat-xrefs-as-has-subclass"
      [] v = "OwlAxioms" -> "owl-axioms"
      [] v = "Unreserved" -> "0"
      [] OTHER -> ""

\* The tag of a variant with no attribute: that of the tag table.
DefaultTag(v) == TagTable[Discriminant(v)]

\* A tag() that reads no field.
TagOfVariant(c) ==
    IF TagAttribute(c.variant) \in {"", "0"} THEN DefaultTag(c.variant)
    ELSE TagAttribute(c.variant)

\* clause.tag()
Tag(c) ==
    IF TagAttribute(c.variant) = "0" THEN c.fields[1]
    ELSE IF TagAttribute(c.variant) # "" THEN TagAttribute(c.variant)
    ELSE DefaultTag(c.variant)

\* The clauses tag() is called on: those of TextClauses, and Unreserved
\* clauses with an empty value.
TagClauses ==
    TextClauses("src")
        \cup {[variant |-> "Unreserved", fields |-> <<k, "">>] : k \in UnreservedTags \cup {"something"}}

InitTag ==
    /\ IdleReader
    /\ NoWriter /\ NoQualifiers /\ NoImport /\ NoExtra
    /\ clause_a \in TagClauses
    /\ clause_b = NoClause /\ ordering = ""
    /\ tree = "src" /\ text = <<>> /\ parsed = NotParsed
    /\ tag_ret = <<>>

tag_ ==
    /\ tag_ret = <<>>
    /\ tag_ret' = <<Tag(clause_a)>>
    /\ UNCHANGED <<reader_vars, clause_vars, writer_vars, qual_vars, import_vars, extra_vars>>

NextTag == tag_

SpecTag == InitTag /\ [][NextTag]_vars

\* ----------------------------------------------------------------- FromPair
MaxStart == 2        \* a pair's span starts at byte 0..MaxStart of its input

\* The rules of the grammar that produce the pairs handed to the builders.
Rules == {"Boolean", "Iri", "UnquotedString"}

\* The texts of the pairs: str::len of each.
StrLen(t) ==
    CASE t = "true" -> 4
      [] t = "false" -> 5
      [] t = "http://a/" -> 9
      [] t = "http://not an url" -> 17
      [] OTHER -> 0

\* The texts a rule matches: Boolean the two literals, UnquotedString any
\* text of a line, Iri a URL (what else it matches is not in the sources).
Matches(rule) ==
    CASE rule = "Boolean" -> {"true", "false"}
      [] rule = "Iri" -> {"http://a/"}
      [] OTHER -> {"true", "false", "http://a/", "http://not an url"}

\* OboParser::parse(rule, input).next(): the pair, with its span.
PairsOf(r) ==
    {[rule |-> r, str |-> t, span |-> <<b, b + StrLen(t)>>] : t \in Matches(r), b \in 0..MaxStart}

Pairs == UNION {PairsOf(r) : r \in Rules}

\* The implementors of FromPair in from_pair.rs, and Self::RULE of each.
SelfTypes == {"bool", "Url"}

RULE(T) == IF T = "bool" THEN "Boolean" ELSE "Iri"

Ok(v) == [tag |-> "Ok", value |-> v]

Panic == [tag |-> "Panic"]

\* Error::UnexpectedRule { actual, expected }
UnexpectedRule(actual, expected) ==
    [tag |-> "UnexpectedRule", actual |-> actual, expected |-> expected]

\* Error::from(PestError::new_from_span(CustomError { message }, span))
CustomError(message, span) == [tag |-> "SyntaxError", message |-> message, span |-> span]

\* bool::from_str
BoolFromStr(t) ==
    CASE t = "true" -> Ok(TRUE)
      [] t = "false" -> Ok(FALSE)
      [] OTHER -> [tag |-> "Err", message |-> "provided string was not true or false"]

\* Url::parse
UrlParse(t) ==
    CASE t = "http://a/" -> Ok([scheme |-> "http", host |-> "a", path |-> "/"])
      [] t = "http://not an url" -> [tag |-> "Err", message |-> "invalid domain character"]
      [] OTHER -> [tag |-> "Err", message |-> "relative URL without a base"]

\* A Url builder that unwraps the result of Url::parse.
UrlFromPairUnwrap(p) ==
    IF UrlParse(p.str).tag = "Ok" THEN UrlParse(p.str) ELSE Panic

\* <Url as FromPair>::from_pair_unchecked
UrlFromPairUnchecked(p) ==
    IF UrlParse(p.str).tag = "Ok" THEN UrlParse(p.str)
    ELSE CustomError(UrlParse(p.str).message, p.span)

\* <bool as FromPair>::from_pair_unchecked: expect("cannot fail.")
BoolFromPairUnchecked(p) ==
    IF BoolFromStr(p.str).tag = "Ok" THEN BoolFromStr(p.str) ELSE Panic

\* Self::from_pair_unchecked(pair)
FromPairUnchecked(T, p) ==
    IF T = "bool" THEN BoolFromPairUnchecked(p) ELSE UrlFromPairUnchecked(p)

\* A from_pair that builds without looking at the rule.
FromPairNoCheck(T, p) == [ret |-> FromPairUnchecked(T, p), calls |-> 1]

\* FromPair::from_pair(pair): the result and the calls of from_pair_unchecked.
FromPairChecked(T, p) ==
    IF p.rule # RULE(T)
    THEN [ret |-> UnexpectedRule(p.rule, RULE(T)), calls |-> 0]
    ELSE [ret |-> FromPairUnchecked(T, p), calls |-> 1]

InitPair ==
    /\ IdleReader
    /\ NoClauses
    /\ NoWriter /\ NoQualifiers /\ NoImport /\ NoTag
    /\ NoWrap /\ NoAccessor
    /\ pair \in Pairs
    /\ self_type \in SelfTypes
    /\ called = ""
    /\ built = NoResult
    /\ unchecked_calls = 0

\* T::from_pair(pair)
from_pair ==
    /\ called = ""
    /\ called' = "from_pair"
    /\ built' = FromPairChecked(self_type, pair).ret
    /\ unchecked_calls' = unchecked_calls + FromPairChecked(self_type, pair).calls
    /\ UNCHANGED <<pair, self_type, reader_vars, clause_vars, writer_vars, qual_vars,
                   import_vars, tag_ret, wrap_vars, accessor_vars>>

\* unsafe { T::from_pair_unchecked(pair) }
from_pair_unchecked ==
    /\ called = ""
    /\ called' = "from_pair_unchecked"
    /\ built' = FromPairUnchecked(self_type, pair)
    /\ unchecked_calls' = unchecked_calls + 1
    /\ UNCHANGED <<pair, self_type, reader_vars, clause_vars, writer_vars, qual_vars,
                   import_vars, tag_ret, wrap_vars, accessor_vars>>

NextPair == from_pair \/ from_pair_unchecked

SpecPair == InitPair /\ [][NextPair]_vars

\* ---------------------------------------------------- the Python wrappers
\* The two source trees of the bindings.
PyTrees == {"fastobo-py/fastobo-py", "fastobo-py/fastobo"}

\* The variants of the wrapper enum HeaderClause, those of the AST it wraps.
PyVariants == VariantsOf("fastobo/ast")

\* The wrapper class of a variant: FormatVersion(Py<FormatVersionClause>), ..
WrapperClass(v) == v \o "Clause"

\* A payload value moved into a field of a wrapper (into(), into_py(py)),
\* and moved out of it again.
IntoPy(x) == [py |-> x]

OutOfPy(f) == f.py

\* FromPy<fastobo::ast::HeaderClause> for HeaderClause: XClause::new(py, ..)
FromPy(c) ==
    [class |-> WrapperClass(c.variant),
     fields |-> [i \in 1..Len(c.fields) |-> IntoPy(c.fields[i])]]

\* The variant each From<XClause> for obo::HeaderClause builds.
IntoVariant(class) ==
    IF class = "TreatXrefsAsHasSubclassClause" THEN "TreatXrefsAsIsA"
    ELSE CHOOSE v \in PyVariants : WrapperClass(v) = class

\* From<XClause> / FromPy<XClause> for obo::HeaderClause
IntoAst(w) ==
    [variant |-> IntoVariant(w.class),
     fields |-> [i \in 1..Len(w.fields) |-> OutOfPy(w.fields[i])]]

\* The class name at the head of the text of __repr__; a class without
\* __repr__ has the one of object, which names its class.
Repr(t, w) ==
    IF t = "fastobo-py/fastobo-py" /\ w.class = "TreatXrefsAsHasSubclassClause"
    THEN "OwlAxiomsClause"
    ELSE w.class

InitWrap ==
    /\ IdleReader
    /\ NoWriter /\ NoQualifiers /\ NoImport /\ NoTag
    /\ NoBuilder /\ NoAccessor
    /\ clause_a \in TextClauses("fastobo/ast")
    /\ clause_b = NoClause /\ ordering = ""
    /\ tree = "fastobo/ast" /\ text = <<>> /\ parsed = NotParsed
    /\ py_tree \in PyTrees
    /\ wrapper = NoWrapper
    /\ unwrapped = NoClause
    /\ repr_ret = ""

\* HeaderClause::from_py(clause, py)
from_py ==
    /\ wrapper = NoWrapper
    /\ wrapper' = FromPy(clause_a)
    /\ UNCHANGED <<py_tree, unwrapped, repr_ret, reader_vars, clause_vars, writer_vars,
                   qual_vars, import_vars, tag_ret, pair_vars, accessor_vars>>

\* obo::HeaderClause::from(wrapper)
into_ast ==
    /\ wrapper # NoWrapper
    /\ unwrapped = NoClause
    /\ unwrapped' = IntoAst(wrapper)
    /\ UNCHANGED <<py_tree, wrapper, repr_ret, reader_vars, clause_vars, writer_vars,
                   qual_vars, import_vars, tag_ret, pair_vars, accessor_vars>>

\* repr(wrapper)
__repr__ ==
    /\ wrapper # NoWrapper
    /\ repr_ret = ""
    /\ repr_ret' = Repr(py_tree, wrapper)
    /\ UNCHANGED <<py_tree, wrapper, unwrapped, reader_vars, clause_vars, writer_vars,
                   qual_vars, import_vars, tag_ret, pair_vars, accessor_vars>>

NextWrap == from_py \/ into_ast \/ __repr__

SpecWrap == InitWrap /\ [][NextWrap]_vars

\* ------------------------------------------------------- UnreservedClause
MaxCalls == 5        \* accessor calls on one UnreservedClause

\* UnquotedString::new(s) and UnquotedString::as_str
UnquotedStringNew(x) == <<"UnquotedString", x>>

as_str(u) == u[2]

\* UnreservedClause::__init__(tag, value)
UnreservedNew(t, v) == [tag |-> UnquotedStringNew(t), value |-> UnquotedStringNew(v)]

\* fn get_tag(&self): Ok(self.tag.as_str())
GetTag(u) == as_str(u.tag)

\* fn get_value(&self): Ok(self.tag.as_str())
GetValue(u) == as_str(u.tag)

\* fn set_tag(&mut self, tag): self.tag = UnquotedString::new(tag)
SetTag(u, t) == [u EXCEPT !.tag = UnquotedStringNew(t)]

\* fn set_value(&mut self, value): self.value = UnquotedString::new(value)
SetValue(u, v) == [u EXCEPT !.value = UnquotedStringNew(v)]

InitAccessor ==
    /\ IdleReader
    /\ NoClauses
    /\ NoWriter /\ NoQualifiers /\ NoImport /\ NoTag
    /\ NoBuilder
    /\ wrapper = NoWrapper /\ unwrapped = NoClause /\ repr_ret = ""
    /\ py_tree \in PyTrees
    /\ args \in [tag : Vals, value : Vals]
    /\ unreserved = UnreservedNew(args.tag, args.value)
    /\ got = NoGot
    /\ calls = 0

AccessorFrame ==
    /\ calls < MaxCalls
    /\ calls' = calls + 1
    /\ UNCHANGED <<reader_vars, clause_vars, writer_vars, qual_vars, import_vars, tag_ret,
                   pair_vars, wrap_vars>>

\* clause.tag
get_tag ==
    /\ got' = [attr |-> "tag", ret |-> GetTag(unreserved)]
    /\ UNCHANGED <<unreserved, args>>
    /\ AccessorFrame

\* clause.value
get_value ==
    /\ got' = [attr |-> "value", ret |-> GetValue(unreserved)]
    /\ UNCHANGED <<unreserved, args>>
    /\ AccessorFrame

\* clause.tag = t
set_tag ==
    /\ \E t \in Vals :
          /\ unreserved' = SetTag(unreserved, t)
          /\ args' = [args EXCEPT !.tag = t]
    /\ got' = NoGot
    /\ AccessorFrame

\* clause.value = v
set_value ==
    /\ \E v \in Vals :
          /\ unreserved' = SetValue(unreserved, v)
          /\ args' = [args EXCEPT !.value = v]
    /\ got' = NoGot
    /\ AccessorFrame

NextAccessor == get_tag \/ get_value \/ set_tag \/ set_value

SpecAccessor == InitAccessor /\ [][NextAccessor]_vars

\* ------------------------------------------------- the stream, as written
\* No read_line call consumed so far has failed.
NoIoSoFar == \A e \in 1..pos : stream[e] \notin IoEvents

\* The number of lines of the stream that precede the line in the buffer
\* (at EOF the buffer is empty and every line precedes it).
LinesBefore == IF IsEmpty(line) THEN pos ELSE pos - 1

\* The number of bytes of the first k lines of the stream.
RECURSIVE BytesOf(_, _)
BytesOf(s, k) == IF k = 0 THEN 0 ELSE BytesOf(s, k - 1) + ByteLen(s[k])

\* The indexes of the lines that begin with '[', in increasing order.
BracketIdx(s) ==
    SelectSeq([i \in 1..Len(s) |-> i], LAMBDA i : StartsWithBracket(s[i]))

\* The index of the first line at or after k that begins with '[', or
\* Len(s) + 1 when there is none.
RECURSIVE NextBracket(_, _)
NextBracket(s, k) ==
    IF k > Len(s) \/ StartsWithBracket(s[k]) THEN k ELSE NextBracket(s, k + 1)

\* The lines of the stanza (or of the run of lines) that starts at line k:
\* line k and the lines after it up to the next line that begins with '['.
StanzaAt(s, k) == SubSeq(s, k, NextBracket(s, k + 1) - 1)

\* An item, without the offsets an error may carry.
Bare(item) == [item EXCEPT !.offs = <<>>]

\* The reader has just returned an item to its caller.
Returned == pc = "iter" /\ ret.tag \in {"Header", "Entity", "Err"}

\* ------------------------------------------------------------------ claims
\* C5: each time the reader returns an item, its byte offset equals the
\* number of bytes of all the lines consumed so far, that is the position in
\* the stream of the line held in the line buffer.
C5_ByteOffsetIsPosition ==
    (Returned /\ NoIoSoFar /\ items[1].ret.tag = "Header") =>
        offset = BytesOf(stream, LinesBefore)

C7_ParseErrorsCarryOffsets ==
    \A i \in 1..Len(items) :
        (items[i].ret.tag = "Err" /\ items[i].ret.kind \in {"grammar", "builder"})
            => Len(items[i].ret.offs) = 2

\* C9: new() returns an error when the header fails to parse: a reader that
\* new() has returned holds no failed header.
C9_NewFailsOnBadHeader ==
    pc = "iter" => ~(header.tag = "Err" /\ header.kind \in {"grammar", "builder"})

\* C2: for any input, the i-th item yielded after the header item is built
\* from the i-th stanza of the stream (the lines starting at the i-th line
\* that begins with '['), and the clauses of the header frame are in the
\* order of their source lines.
C2_ItemsFollowStanzas ==
    (pc # "new" /\ NoIoSoFar) =>
        /\ \A i \in 2..Len(items) :
              /\ i - 1 <= Len(BracketIdx(stream))
              /\ items[i].first = BracketIdx(stream)[i - 1]
        /\ (Len(items) >= 1 /\ items[1].ret.tag = "Header") =>
              items[1].ret.body =
                  SelectSeq(SubSeq(stream, 1, NextBracket(stream, 1) - 1),
                            LAMBDA l : ~TrimIsEmpty(l))

\* C8: when an entity frame fails to parse, next() yields its error, the line
\* buffer then holds the opening line of the next stanza (nothing at EOF), and
\* the following call yields the result of parsing that stanza from its own
\* lines only.
C8_FailedFrameIsDiscarded ==
    NoIoSoFar =>
        /\ (Returned /\ Len(items) >= 2 /\ ret.tag = "Err") =>
              /\ line = (IF pos = Len(stream) /\ ~StartsWithBracket(stream[pos])
                         THEN NoLine ELSE stream[pos])
              /\ ~IsEmpty(line) => StartsWithBracket(line)
        /\ \A i \in 2..(Len(items) - 1) :
              items[i].ret.tag = "Err" =>
                  /\ items[i + 1].first = items[i].first + items[i].used
                  /\ StartsWithBracket(stream[items[i + 1].first])
                  /\ items[i + 1].used = Len(StanzaAt(stream, items[i + 1].first))
                  /\ Bare(items[i + 1].ret) =
                        Bare(ParseEntity(StanzaAt(stream, items[i + 1].first), 0, 0))

\* A frame has failed in the grammar, and the stanza after it came out whole.
C8_Witness ==
    /\ NoIoSoFar
    /\ Len(items) = 3
    /\ items[2].ret.tag = "Err"
    /\ items[3].ret.tag = "Entity"
    /\ items[3].ret.body = <<"id">>

\* C2, for the inputs whose header parses: this part of the claim holds.
C2_HoldsWhenHeaderParses ==
    (Len(items) >= 1 /\ items[1].ret.tag = "Header") => C2_ItemsFollowStanzas

\* ------------------------------------------- parsing a document as a whole
\* A document as section 6.1 of the specification gives it: header clause
\* lines, then stanzas, each an opener followed by clause lines; blank lines
\* may separate them.
WellFormed(s) ==
    /\ \A i \in 1..Len(s) : s[i] \notin IoEvents
    /\ \A i \in 1..(NextBracket(s, 1) - 1) :
          TrimIsEmpty(s[i]) \/ HeaderClauseParse(s[i]) = "ok"
    /\ \A i \in NextBracket(s, 1)..Len(s) :
          StartsWithBracket(s[i]) \/ TrimIsEmpty(s[i]) \/ EntityLineParse(s[i]) = "ok"

NonBlank(ls) == SelectSeq(ls, LAMBDA l : ~TrimIsEmpty(l))

\* OboDoc::from_str on a well-formed text: the header clauses, and one entity
\* frame per stanza, in the order of the text.
ParseText(s) ==
    DocOk(NonBlank(SubSeq(s, 1, NextBracket(s, 1) - 1)),
          [k \in 1..Len(BracketIdx(s)) |->
              [kind |-> EntityKind(s[BracketIdx(s)[k]]),
               clauses |-> NonBlank(Tail(StanzaAt(s, BracketIdx(s)[k])))]])

C10_Step ==
    LET hit == \E e \in (pos + 1)..pos' : stream[e] \in IoEvents
    IN  /\ (pc = "new" /\ hit) => header' = IoError
        /\ (pc = "iter" /\ pc' = "iter" /\ header = IoError) =>
              ret' = IoError /\ items' = <<[ret |-> IoError, first |-> 1, used |-> 0]>>
        /\ (pc = "iter" /\ pc' = "iter" /\ hit) =>
              ret' = IoError /\ Len(items') = Len(items) + 1
                             /\ items'[Len(items')].ret = IoError
        /\ (pc = "iter" /\ pc' = "moved" /\ (hit \/ header = IoError)) =>
              doc' = DocErr(IoError)
        /\ \A i \in 1..Len(items') : \A e \in 1..pos' :
              (stream[e] \in IoEvents /\ items'[i].ret # IoError) =>
                  \/ items'[i].first + items'[i].used < e
                  \/ items'[i].first >= e

TablePos(v) == CHOOSE i \in 1..Len(TagTable) : TagTable[i] = TagOf(v)

\* a < b by the payload: the fields agree up to one where a's is smaller.
FieldLess(kind, x, y) ==
    IF kind = "val" THEN x < y
    ELSE (x = <<>> /\ y # <<>>) \/ (x # <<>> /\ y # <<>> /\ x[1] < y[1])

PayloadLess(a, b) ==
    \E k \in 1..Len(a.fields) :
        /\ \A j \in 1..(k - 1) : a.fields[j] = b.fields[j]
        /\ FieldLess(FieldKinds(a.variant)[k], a.fields[k], b.fields[k])

Reverse(o) == IF o = "Less" THEN "Greater" ELSE IF o = "Greater" THEN "Less" ELSE o

\* C4: a clause whose variant comes earlier in the tag table is less, whatever
\* the payloads; two clauses of one variant compare by their payload fields,
\* lexicographically; and the relation is a total order.
C4_CanonicalOrdering ==
    ordering # "" =>
        /\ TablePos(clause_a.variant) < TablePos(clause_b.variant) => ordering = "Less"
        /\ TablePos(clause_a.variant) > TablePos(clause_b.variant) => ordering = "Greater"
        /\ clause_a.variant = clause_b.variant =>
              /\ ordering = "Less" <=> PayloadLess(clause_a, clause_b)
              /\ ordering = "Greater" <=> PayloadLess(clause_b, clause_a)
        /\ ordering \in {"Less", "Equal", "Greater"}
        /\ ordering = "Equal" <=> clause_a = clause_b
        /\ Cmp(clause_b, clause_a) = Reverse(ordering)
        /\ ordering = "Less" =>
              \A c \in HeaderClauses : Cmp(clause_b, c) = "Less" => Cmp(clause_a, c) = "Less"

\* FormatVersion with the larger payload against DataVersion with the smaller
\* one: the tag decides.
C4_Witness ==
    /\ ordering = "Less"
    /\ clause_a = [variant |-> "FormatVersion", fields |-> <<1>>]
    /\ clause_b = [variant |-> "DataVersion", fields |-> <<0>>]

\* ------------------------------------------------------ claims: round trip
\* An Unreserved clause whose tag is the tag of a typed variant of the tree.
ReservedCollision(t, c) ==
    c.variant = "Unreserved" /\ TagRule(t, c.fields[1]) # "Unreserved"

\* C3: parsing the text Display writes for a header clause gives a clause
\* equal to it, in both trees, for every variant (an Option present or absent).
\* Stated for the clauses that are not an Unreserved with a typed variant's tag.
C3_RoundTrip ==
    (parsed # NotParsed /\ ~ReservedCollision(tree, clause_a)) => parsed = ParseOk(clause_a)

\* The same, in the tree whose Display writes the separator after every tag.
C3_RoundTripInSrcTree ==
    (parsed # NotParsed /\ tree = "fastobo/src" /\ ~ReservedCollision(tree, clause_a))
        => parsed = ParseOk(clause_a)

\* An Unreserved clause with a typed variant's tag reads back as that variant.
C3_ReservedCollisionReadsTyped ==
    (parsed # NotParsed /\ ReservedCollision(tree, clause_a))
        => parsed.tag = "Ok" /\ parsed.clause.variant = TagRule(tree, clause_a.fields[1])

\* ---------------------------------------------------- claims: tag dispatch
\* The typed variant whose tag, in the tag table, is the tag of a text.
TypedTags == {TagTable[i] : i \in 1..Len(TagTable)} \ {"unreserved"}

TableVariant(tag) == CHOOSE v \in VariantNames \ {"Unreserved"} : TagOf(v) = tag

ValueCount(txt) == (Len(txt) - 1) \div 2

Value(txt, i) == txt[2 * i + 1]

\* The number of values a typed variant takes fits the text, the Option last.
FitsVariant(v, txt) ==
    LET kinds == FieldKinds(v)
    IN \/ FreeText(v)
       \/ ValueCount(txt) = Len(kinds)
       \/ kinds[Len(kinds)] = "opt" /\ ValueCount(txt) = Len(kinds) - 1

\* The clause a text with a typed tag stands for.
TableClause(txt) ==
    LET v == TableVariant(txt[1])
        kinds == FieldKinds(v)
    IN [variant |-> v,
        fields |-> [i \in 1..Len(kinds) |->
                       IF FreeText(v) THEN RestOfLine(txt, 3)
                       ELSE IF kinds[i] = "val" THEN Value(txt, i)
                       ELSE IF ValueCount(txt) >= i THEN <<Value(txt, i)>> ELSE <<>>]]

\* C11: a clause text with a reserved tag is built into the typed variant of
\* that tag with its payload, namespace-id-rule into NamespaceIdRule and not
\* Unreserved, and an optional last field is None exactly when the text has
\* no value for it.
C11_TagDispatch ==
    (parsed # NotParsed /\ clause_a = NoClause /\ text[1] \in TypedTags
        /\ FitsVariant(TableVariant(text[1]), text))
    => parsed = ParseOk(TableClause(text))

\* The same in the trees whose HeaderClause has the NamespaceIdRule variant.
C11_TagDispatchWithNamespaceIdRule ==
    (parsed # NotParsed /\ clause_a = NoClause /\ text[1] \in TypedTags
        /\ tree # "fastobo/ast" /\ FitsVariant(TableVariant(text[1]), text))
    => parsed = ParseOk(TableClause(text))

\* The tags of the typed variants of a tree.
TypedTagsOf(t) == {TagOf(v) : v \in VariantsOf(t) \ {"Unreserved"}}

\* C12: reading a clause text gives an Unreserved clause only when its tag is
\* none of the typed tags; and T: V with T not a typed tag gives
\* Unreserved(T, V), the first field being the tag as written.
C12_UnreservedKeepsTag ==
    (parsed # NotParsed /\ clause_a = NoClause) =>
        /\ (parsed.tag = "Ok" /\ parsed.clause.variant = "Unreserved")
              => text[1] \notin TypedTagsOf(tree)
        /\ text[1] \notin TypedTagsOf(tree)
              => parsed = ParseOk([variant |-> "Unreserved",
                                   fields |-> <<text[1], RestOfLine(text, 3)>>])

C12_Witness ==
    /\ tree = "src"
    /\ text = <<"x-tag", ": ", "a", " ", "b">>
    /\ parsed = ParseOk([variant |-> "Unreserved", fields |-> <<"x-tag", "a b">>])

\* ------------------------------------------------------- claims: Display
\* The values of the fields of a clause that are written: every plain field,
\* an Option when it is Some; the tag of an Unreserved clause is its first
\* field and not part of the payload.
RECURSIVE WrittenValues(_, _, _)
WrittenValues(kinds, fields, i) ==
    IF i > Len(kinds) THEN <<>>
    ELSE (IF kinds[i] = "val" THEN <<fields[i]>> ELSE fields[i])
            \o WrittenValues(kinds, fields, i + 1)

ClauseTag(c) == IF c.variant = "Unreserved" THEN c.fields[1] ELSE TagOf(c.variant)

ClauseValues(c) ==
    IF c.variant = "Unreserved" THEN <<c.fields[2]>>
    ELSE WrittenValues(FieldKinds(c.variant), c.fields, 1)

\* C13: Display writes the tag, then the separator ": ", then the payload
\* fields with single spaces between them, for every variant;
\* TreatXrefsAsHasSubclass(p) is written treat-xrefs-as-has-subclass: p.
C13_DisplayWritesSeparator ==
    (text # <<>> /\ clause_a # NoClause) =>
        LET vals == ClauseValues(clause_a)
        IN /\ Len(text) = 2 * Len(vals) + 1
           /\ text[1] = ClauseTag(clause_a)
           /\ text[2] = ": "
           /\ \A i \in 1..Len(vals) : text[2 * i + 1] = vals[i]
           /\ \A i \in 2..Len(vals) : text[2 * i] = " "

\* The same for the Display of src/fastobo/src.
C13_DisplayWritesSeparatorInSrcTree ==
    (text # <<>> /\ clause_a # NoClause /\ tree = "fastobo/src") =>
        LET vals == ClauseValues(clause_a)
        IN /\ Len(text) = 2 * Len(vals) + 1
           /\ text[1] = ClauseTag(clause_a)
           /\ text[2] = ": "
           /\ \A i \in 1..Len(vals) : text[2 * i + 1] = vals[i]
           /\ \A i \in 2..Len(vals) : text[2 * i] = " "

\* ------------------------------------------------------ claims: to_writer
BlankAt(ls) == {i \in 1..Len(ls) : ls[i] = "bl"}

RECURSIVE WithoutBlank(_)
WithoutBlank(ls) ==
    IF ls = <<>> THEN <<>>
    ELSE (IF Head(ls) = "bl" THEN <<>> ELSE <<Head(ls)>>) \o WithoutBlank(Tail(ls))

RECURSIVE FramesInOrder(_)
FramesInOrder(es) ==
    IF es = <<>> THEN <<>> ELSE EntityFrameLines(Head(es)) \o FramesInOrder(Tail(es))

\* C14: to_writer writes the header, then the entity frames in the order of
\* the list, with one blank line after the header exactly when the header
\* and the list of entities are both non-empty, and none otherwise.
C14_SeparatorWhenBothNonEmpty ==
    wrote = "Ok" =>
        /\ WithoutBlank(written) = HeaderFrameLines(doc.header) \o FramesInOrder(doc.entities)
        /\ (doc.header # <<>> /\ doc.entities # <<>>) => BlankAt(written) = {Len(doc.header) + 1}
        /\ (doc.header = <<>> \/ doc.entities = <<>>) => BlankAt(written) = {}

C14_Witness ==
    /\ wrote = "Ok"
    /\ doc.header = <<"fv">>
    /\ Len(doc.entities) = 2 /\ doc.entities[1].kind = "Typedef" /\ doc.entities[2].kind = "Term"
    /\ written[2] = "bl"

\* ---------------------------------------------------- claims: cardinality
\* The lines of the header: those before the first line that starts with '['.
HeaderLinesOf(s) == SubSeq(s, 1, NextBracket(s, 1) - 1)

\* C15: the reader accepts any number of header clauses of any variant: when
\* every line of the header is a clause that parses, whatever is repeated,
\* the first item is a header frame with all of them, in the order of the
\* source, and not an error.
C15_NoCardinalityCheck ==
    (pc # "new" /\ Len(items) >= 1
        /\ \A i \in 1..Len(HeaderLinesOf(stream)) :
              TrimIsEmpty(stream[i]) \/ HeaderClauseParse(stream[i]) = "ok")
    => items[1].ret = HeaderFrame(NonBlank(HeaderLinesOf(stream)))

\* Two format-version lines, then a third clause.
C15_Witness ==
    /\ Len(items) >= 1
    /\ Len(stream) >= 3
    /\ SubSeq(stream, 1, 3) = <<"fv", "fv", "id">>
    /\ items[1].ret = HeaderFrame(<<"fv", "fv", "id">>)

\* --------------------------------------------------- claims: QualifierList
\* q1 < q2 by (key, value).
LexLess(p, q) == p.key < q.key \/ (p.key = q.key /\ p.value < q.value)

\* The number of times q occurs in a list.
Count(qs, q) == Cardinality({i \in 1..Len(qs) : qs[i] = q})

IsPermutation(qs, rs) ==
    Len(qs) = Len(rs) /\ \A q \in Qualifiers : Count(qs, q) = Count(rs, q)

\* A stable sort: insertion after the last element that is not greater.
RECURSIVE InsertStable(_, _)
InsertStable(sorted, q) ==
    IF sorted = <<>> THEN <<q>>
    ELSE IF LexLess(q, sorted[Len(sorted)])
         THEN Append(InsertStable(SubSeq(sorted, 1, Len(sorted) - 1), q), sorted[Len(sorted)])
         ELSE Append(sorted, q)

RECURSIVE StableSort(_)
StableSort(qs) ==
    IF qs = <<>> THEN <<>>
    ELSE InsertStable(StableSort(SubSeq(qs, 1, Len(qs) - 1)), qs[Len(qs)])

C16_Step ==
    /\ sorts' = sorts + 1 =>
          /\ IsPermutation(qualifiers', given)
          /\ qualifiers' = StableSort(qualifiers)
          /\ sorts >= 1 => qualifiers' = qualifiers
    /\ (sorts >= 1 /\ sorted_ret = "" /\ sorted_ret' # "") => sorted_ret' = "true"

\* C16: after sort() is_sorted() returns true, the list is a permutation of
\* the one given, and another sort() leaves it as it is; the unstable sort
\* gives what a stable sort gives.
C16_SortIsStableAndIdempotent == [][C16_Step]_vars

\* A list with a repeated qualifier, out of order, sorted twice and found sorted.
C16_Witness ==
    /\ sorts = 2
    /\ sorted_ret = "true"
    /\ Len(given) = 3 /\ given[1] = given[3] /\ LexLess(given[2], given[1])
    /\ qualifiers # given

\* C17: qualifiers are totally ordered by (key, value), the key first; and
\* is_sorted() returns true exactly when no qualifier is followed by a
\* smaller one.
C17_LexOrderAndIsSorted ==
    /\ \A i, j \in 1..Len(qualifiers) :
          LET p == qualifiers[i]
              q == qualifiers[j]
          IN /\ QCmp(p, q) = "Less" <=> LexLess(p, q)
             /\ QCmp(p, q) = "Greater" <=> LexLess(q, p)
             /\ QCmp(p, q) = "Equal" <=> p = q
             /\ \A k \in 1..Len(qualifiers) :
                   (LexLess(p, q) /\ LexLess(q, qualifiers[k])) => LexLess(p, qualifiers[k])
    /\ sorted_ret # "" =>
          (sorted_ret = "true" <=>
              \A i \in 2..Len(qualifiers) : ~LexLess(qualifiers[i], qualifiers[i - 1]))

\* Equal neighbours, then a larger one: sorted.
C17_Witness ==
    /\ sorted_ret = "true"
    /\ sorts = 0
    /\ Len(qualifiers) = 3
    /\ qualifiers[1] = qualifiers[2]
    /\ qualifiers[2].key = qualifiers[3].key /\ qualifiers[2].value < qualifiers[3].value

\* ---------------------------------------------------------- claims: Import
\* C18: the variant of an Import comes from its text, the URL first: a text
\* that parses as a URL gives Import::Url, one that does not and parses as an
\* identifier gives Import::Abbreviated, and one that parses as neither gives
\* an error and no clause.
C18_ImportUrlFirst ==
    import_clause # NotBuilt =>
        /\ UrlParses(reference) => import_clause = ImportUrl(reference)
        /\ (~UrlParses(reference) /\ IdentParses(reference))
              => import_clause = ImportAbbreviated(reference)
        /\ (~UrlParses(reference) /\ ~IdentParses(reference))
              => import_clause = ValueError

\* a:a parses as a URL and as a prefixed identifier: it is a URL.
C18_Witness ==
    /\ reference = <<"a", ":", "a">>
    /\ IdentParses(reference)
    /\ import_clause.tag = "Url"

EndOfRun(s, k) == IF NextBracket(s, k) <= Len(s) THEN NextBracket(s, k) ELSE Len(s)

LineAfterRun(s, k) == IF NextBracket(s, k) <= Len(s) THEN s[NextBracket(s, k)] ELSE NoLine

NoIoIn(s, a, b) == \A e \in a..b : e <= Len(s) => s[e] \notin IoEvents

\* C20: the header frame is emitted when the first line that begins with '['
\* or EOF is reached, with one clause per non-blank line before it; an entity
\* frame is parsed from exactly the lines from one that begins with '[' up to
\* the next such line or EOF, and is emitted there; the last frame is emitted
\* at EOF.
C20_FrameSegmentation ==
    /\ (pc = "iter" /\ items = <<>> /\ header.tag = "Header") =>
          /\ pos = EndOfRun(stream, 1)
          /\ line = LineAfterRun(stream, 1)
          /\ NoIoIn(stream, 1, pos)
          /\ header.body = NonBlank(HeaderLinesOf(stream))
    /\ \A i \in 2..Len(items) :
          items[i].ret.tag = "Entity" =>
              LET f == items[i].first
              IN /\ StartsWithBracket(stream[f])
                 /\ items[i].used = Len(StanzaAt(stream, f))
                 /\ NoIoIn(stream, f, f + items[i].used)
                 /\ items[i].ret = EntityFrame(EntityKind(stream[f]),
                                               NonBlank(Tail(StanzaAt(stream, f))))
                 /\ (Returned /\ i = Len(items)) =>
                       /\ pos = EndOfRun(stream, f + 1)
                       /\ line = LineAfterRun(stream, f + 1)
    /\ (pc = "iter" /\ NoIoSoFar /\ Len(items) >= 1 /\ items[1].ret.tag = "Header") =>
          /\ \A i \in 2..Len(items) :
                /\ i - 1 <= Len(BracketIdx(stream))
                /\ items[i].first = BracketIdx(stream)[i - 1]
                /\ Bare(items[i].ret) = Bare(ParseEntity(StanzaAt(stream, items[i].first), 0, 0))
          /\ ret = None => (Len(items) = Len(BracketIdx(stream)) + 1 /\ pos = Len(stream))

\* A header of two lines, a stanza ended by the next one, and the last stanza
\* ended by EOF: the reader is through.
C20_Witness ==
    /\ stream = <<"fv", "[Term]", "id", "[Typedef]">>
    /\ pc = "iter" /\ ret = None
    /\ Len(items) = 3
    /\ items[2].ret = EntityFrame("Term", <<"id">>)
    /\ items[3].ret = EntityFrame("Typedef", <<>>)

\* ------------------------------------------------------- claims: buffers
\* The last item next() has returned.
LastItem == items[Len(items)]

\* C21: when next() returns a frame, the frame buffer holds the lines of that
\* frame only (it was empty when the call began: nothing of the frame before
\* is in it), and the line buffer holds the line read after the frame's last
\* one, the opener of the next frame or nothing at EOF, never a line of the
\* frame just returned.
C21_BuffersClearedAtBoundary ==
    (Returned /\ ret.tag \in {"Header", "Entity"}) =>
        /\ ret.tag = "Header" =>
              /\ frame_buf = <<>>
              /\ Len(items) = 1
              /\ line = LineAfterRun(stream, 1)
        /\ ret.tag = "Entity" =>
              LET f == LastItem.first
                  n == LastItem.used
              IN /\ n >= 1
                 /\ frame_buf = SubSeq(stream, f, f + n - 1)
                 /\ pos = IF f + n <= Len(stream) THEN f + n ELSE Len(stream)
                 /\ line = IF f + n <= Len(stream) THEN stream[f + n] ELSE NoLine
                 /\ StartsWithBracket(line) \/ line = NoLine

\* Two frames in a row: the second was returned with a buffer of its own
\* lines, the first one's being gone.
C21_Witness ==
    /\ Returned /\ ret.tag = "Entity"
    /\ Len(items) = 3
    /\ items[2].ret.tag = "Entity"
    /\ items[2].used = 2
    /\ frame_buf = <<"[Typedef]", "id">>

\* ------------------------------------------------------ claims: builders
\* C22: from_pair looks at the rule first: on a pair of another rule than
\* Self::RULE it returns UnexpectedRule with the pair's rule as actual and
\* Self::RULE as expected, from_pair_unchecked not being called; on a pair of
\* Self::RULE it returns what from_pair_unchecked returns on that pair.
C22_FromPairChecksRule ==
    called = "from_pair" =>
        /\ pair.rule # RULE(self_type) =>
              /\ built = [tag |-> "UnexpectedRule", actual |-> pair.rule,
                          expected |-> RULE(self_type)]
              /\ unchecked_calls = 0
        /\ pair.rule = RULE(self_type) =>
              /\ built = FromPairUnchecked(self_type, pair)
              /\ unchecked_calls = 1

\* from_pair of Url on a pair of UnquotedString: the rule is refused.
C22_Witness ==
    /\ called = "from_pair"
    /\ self_type = "Url" /\ pair.rule = "UnquotedString" /\ pair.str = "http://a/"
    /\ built = UnexpectedRule("UnquotedString", "Iri")
    /\ unchecked_calls = 0

\* C23: the Url builder, whatever rule the pair came from, returns the URL
\* Url::parse gives when the pair's text is a valid URL, and otherwise an
\* error that carries the span of the pair; it never panics.
C23_UrlErrorCarriesSpan ==
    (called # "" /\ self_type = "Url" /\ unchecked_calls = 1) =>
        /\ built.tag # "Panic"
        /\ UrlParse(pair.str).tag = "Ok" => built = UrlParse(pair.str)
        /\ UrlParse(pair.str).tag # "Ok" =>
              /\ built.tag = "SyntaxError"
              /\ built.span = pair.span
              /\ built.span[2] - built.span[1] = StrLen(pair.str)

\* The case of tests::from_pair: a pair of UnquotedString that is no URL.
C23_Witness ==
    /\ called = "from_pair_unchecked" /\ self_type = "Url"
    /\ pair.rule = "UnquotedString" /\ pair.str = "http://not an url"
    /\ pair.span = <<1, 18>>
    /\ built = CustomError("invalid domain character", <<1, 18>>)

\* ---------------------------------------------------- claims: item count
\* No read of the stream fails.
ReadsWithoutIoError(s) == \A e \in 1..Len(s) : s[e] \notin IoEvents

\* Every non-blank line before the first line that begins with '[' parses
\* as a header clause.
HeaderClausesParse(s) ==
    \A e \in 1..(NextBracket(s, 1) - 1) : TrimIsEmpty(s[e]) \/ HeaderClauseParse(s[e]) = "ok"

\* The number of lines that begin with '['.
Openers(s) == Cardinality({e \in 1..Len(s) : StartsWithBracket(s[e])})

\* C24: on a stream read without I/O error whose header clauses all parse,
\* the reader has yielded 1 + N items when it returns None, N the number of
\* lines that begin with '[', whether the entity frames parse or not, and
\* never more than that; on the empty stream its only item is an empty
\* header frame.
C24_ItemCount ==
    (pc = "iter" /\ ReadsWithoutIoError(stream) /\ HeaderClausesParse(stream)) =>
        /\ Len(items) <= 1 + Openers(stream)
        /\ ret = None => Len(items) = 1 + Openers(stream)
        /\ (ret = None /\ stream = <<>>) => items = <<[ret |-> HeaderFrame(<<>>), first |-> 1, used |-> 0]>>
        /\ Len(items) = 1 + Openers(stream) => pos = Len(stream)

\* Two openers, the first with a clause that does not parse: three items, of
\* which one error, and then None.
C24_Witness ==
    /\ stream = <<"fv", "[Term]", "oops", "[Typedef]">>
    /\ pc = "iter" /\ ret = None
    /\ Len(items) = 3
    /\ items[2].ret.tag = "Err"

\* ---------------------------------------------------- claims: item kinds
\* The kinds of the items next() returns: the first call returns the header
\* result, no later call returns a header frame, and what a later call
\* returns is an entity frame or an error.
ItemKinds ==
    /\ (pc = "iter" /\ ret # Start) => Len(items) >= 1
    /\ Len(items) >= 1 => items[1].ret.tag \in {"Header", "Err"}
    /\ \A i \in 2..Len(items) : items[i].ret.tag \in {"Entity", "Err"}

\* C25: the first call of next() after construction returns Some, the header
\* result; no later call returns a header frame and every Ok item of a later
\* call is an entity frame; and the unwrap calls of OboDoc::try_from never
\* panic.
C25_ItemKindsAndNoPanic == ItemKinds /\ doc # DocPanic

\* C25, for a reader handed to try_from as new() returned it: no panic.
C25_NoPanicOnFreshReader == ItemKinds /\ (ret = Start => doc # DocPanic)

\* --------------------------------------------------------- claims: fused
\* C26: once next() has returned None, every later call returns None, reads
\* nothing of the stream and leaves the offsets, the line buffer and the
\* items already yielded as they were.
C26_Step ==
    (pc = "iter" /\ pc' = "iter" /\ nones >= 1) =>
        /\ ret = None /\ ret' = None
        /\ nones' = nones + 1
        /\ pos' = pos
        /\ offset' = offset /\ line_offset' = line_offset
        /\ line' = line /\ IsEmpty(line)
        /\ items' = items

C26_Fused == [][C26_Step]_vars

\* next() has returned None twice, the stream having been read to its end.
C26_Witness ==
    /\ pc = "iter" /\ nones = 2 /\ ret = None
    /\ stream = <<"fv", "[Term]", "id">>
    /\ pos = 3 /\ line_offset = 3
    /\ Len(items) = 2

\* --------------------------------------------------- claims: termination
\* What is left to read: the lines of the stream not yet read, and the line
\* held in the line buffer.
Remaining == (Len(stream) - pos) + (IF IsEmpty(line) THEN 0 ELSE 1)

\* A call of next() entered with the header taken and a line in the buffer:
\* it returns an item, what is left to read has shrunk, and the loop has
\* stopped at the next line that begins with '[' or at EOF (at a failing
\* read when there is one before that).
C27_Step ==
    (pc = "iter" /\ pc' = "iter" /\ header = None /\ ~IsEmpty(line)) =>
        /\ ret' # None
        /\ Len(items') = Len(items) + 1
        /\ Remaining' < Remaining
        /\ pos' <= EndOfRun(stream, pos + 1)
        /\ NoIoIn(stream, pos + 1, EndOfRun(stream, pos + 1)) =>
              /\ pos' = EndOfRun(stream, pos + 1)
              /\ line' = LineAfterRun(stream, pos + 1)

\* C27: over a finite input, repeated calls of next() eventually return
\* None; each call that returns an item while the line buffer is not empty
\* consumes at least one line, its loop ending at the next line that begins
\* with '[' or at EOF.
C27_Termination == <>(ret = None) /\ [][C27_Step]_vars

\* None has come after a header and two frames, the second ended by EOF.
C27_Witness ==
    /\ pc = "iter" /\ ret = None /\ nones = 1
    /\ stream = <<"id", "[Term]", "[Term]", "oops">>
    /\ Len(items) = 3
    /\ Remaining = 0

\* ------------------------------------------------- claims: header errors
\* The index of the first header line that fails to parse, 0 when every
\* header line parses.
RECURSIVE FailingHeaderLine(_, _)
FailingHeaderLine(s, k) ==
    IF k > Len(s) \/ StartsWithBracket(s[k]) THEN 0
    ELSE IF ~TrimIsEmpty(s[k]) /\ HeaderClauseParse(s[k]) # "ok" THEN k
    ELSE FailingHeaderLine(s, k + 1)

C29_WrapperRoundTrip ==
    /\ wrapper # NoWrapper => wrapper.class = clause_a.variant \o "Clause"
    /\ unwrapped # NoClause =>
          /\ unwrapped.variant = clause_a.variant
          /\ unwrapped.fields = clause_a.fields
    /\ repr_ret # "" => repr_ret = wrapper.class

\* C29, for every variant but TreatXrefsAsHasSubclass: this part holds.
C29_HoldsButForHasSubclass ==
    clause_a.variant # "TreatXrefsAsHasSubclass" => C29_WrapperRoundTrip

\* In both trees the payload of TreatXrefsAsHasSubclass comes back, in a
\* TreatXrefsAsIsA clause.
C29_HasSubclassComesBackAsIsA ==
    (clause_a.variant = "TreatXrefsAsHasSubclass" /\ unwrapped # NoClause) =>
        unwrapped = [variant |-> "TreatXrefsAsIsA", fields |-> clause_a.fields]

\* C30: get_tag returns the tag last given to the clause and get_value the
\* value last given to it, by the constructor or by a setter; set_tag leaves
\* the value as it is and set_value the tag.
C30_AccessorsPerField ==
    /\ unreserved = [tag |-> <<"UnquotedString", args.tag>>,
                     value |-> <<"UnquotedString", args.value>>]
    /\ got.attr = "tag" => got.ret = args.tag
    /\ got.attr = "value" => got.ret = args.value

\* C30, without get_value: the setters write their own field only and
\* get_tag reads the tag; get_value returns the tag.
C30_HoldsButForGetValue ==
    /\ unreserved = [tag |-> <<"UnquotedString", args.tag>>,
                     value |-> <<"UnquotedString", args.value>>]
    /\ got.attr = "tag" => got.ret = args.tag
    /\ got.attr = "value" => got.ret = args.tag

====
